---- MODULE Spec2Model ----
(***************************************************************************)
(* Model of the research cycle graph (src/app/agent/graph.py) and of the   *)
(* strategy evaluation engine (src/app/trading-engine/backtester.py): its  *)
(* pure functions and the per-asset loop of run_backtest.                  *)
(*                                                                         *)
(* Text is modelled as a sequence of tokens.  The four directive markers   *)
(* are single tokens; "\n", "," and " " are single tokens; every other     *)
(* token is a word without whitespace, or a misspelt marker (MalformedMarkers). *)
(* No concatenation of the non-marker                                      *)
(* tokens used here spells a marker, so Python's substring search          *)
(* (`in`, str.split) is exactly token search.                              *)
(*                                                                         *)
(* The feature lists of ResearchState are duplicate-free lists whose order *)
(* is whatever list(set(...)) yields; they are modelled as sets.           *)
(***************************************************************************)
EXTENDS Integers, Sequences, FiniteSets, TLC

VARIABLES
    node,                 \* graph node to run next: orchestrator, route, tools, update_state, END, ABORTED
    messages,             \* ResearchState["messages"]
    cycle_count,          \* ResearchState["cycle_count"]
    features_ruled_in,    \* ResearchState["features_ruled_in"]
    features_ruled_out,   \* ResearchState["features_ruled_out"]
    promoted_strategies,  \* ResearchState["promoted_strategies"]
    current_hypothesis,   \* ResearchState["current_hypothesis"]
    last_backtest_result, \* ResearchState["last_backtest_result"]
    should_continue,      \* ResearchState["should_continue"]
    fn,                   \* evaluation-engine function being applied ("none" in a graph run)
    args,                 \* its arguments
    returned,             \* whether it has returned
    ret,                  \* its return value, or the exception it raised
    all_results,          \* run_backtest's list of per-asset results
    exchanges,            \* data._exchanges: the client cached for an exchange id, 0 for none
    constructed,          \* the exchange ids of the clients constructed, in order
    threads               \* the get_exchange frame of each worker thread

vars == <<node, messages, cycle_count, features_ruled_in, features_ruled_out,
          promoted_strategies, current_hypothesis, last_backtest_result,
          should_continue, fn, args, returned, ret, all_results,
          exchanges, constructed, threads>>

graphVars == <<node, messages, cycle_count, features_ruled_in, features_ruled_out,
               promoted_strategies, current_hypothesis, last_backtest_result,
               should_continue>>

callVars == <<fn, args, returned, ret, all_results>>

cacheVars == <<exchanges, constructed, threads>>

ExchangeIds == {"binance", "bybit"}

\* the worker threads that run research loops: the scheduled job and a
\* manually started run
Threads == {"scheduler", "manual"}

\* the module as imported: an empty cache, no thread inside get_exchange
CacheIdle ==
    /\ exchanges = [e \in ExchangeIds |-> 0]
    /\ constructed = <<>>
    /\ threads = [t \in Threads |->
                    [pc |-> "idle", exchange_id |-> "", client |-> 0, returns |-> <<>>]]

(***************************************************************************)
(* Bounds                                                                  *)
(***************************************************************************)
\* runs are explored while cycle_count is below this
MaxCycles == 12
\* runs are explored while the history is no longer than this
MaxHistory == 24
\* the oracle answers from its whole vocabulary, and tools may fail, in the
\* first RichCycles cycles of a run; later cycles use LateTurns and succeed
RichCycles == 2

(***************************************************************************)
(* Program constants                                                       *)
(***************************************************************************)
\* the cycle ceiling of should_continue_research
Ceiling == 10

(***************************************************************************)
(* Text                                                                    *)
(***************************************************************************)
RULED_IN == "RULED IN:"
RULED_OUT == "RULED OUT:"
NEXT_HYPOTHESIS == "NEXT HYPOTHESIS:"
PROMOTE == "PROMOTE"
NL == "\n"
COMMA == ","
SP == " "

Last(s) == s[Len(s)]

Contains(s, tok) == \E i \in 1..Len(s) : s[i] = tok

\* index of the first occurrence of tok in s, 0 when absent
RECURSIVE FirstFrom(_, _, _)
FirstFrom(s, tok, i) ==
    IF i > Len(s) THEN 0
    ELSE IF s[i] = tok THEN i
    ELSE FirstFrom(s, tok, i + 1)

\* str.split(sep): the pieces of s between the occurrences of sep
RECURSIVE Split(_, _)
Split(s, sep) ==
    LET k == FirstFrom(s, sep, 1)
    IN  IF k = 0 THEN <<s>>
        ELSE <<SubSeq(s, 1, k - 1)>> \o Split(SubSeq(s, k + 1, Len(s)), sep)

\* str.strip(): drop leading and trailing whitespace
RECURSIVE Strip(_)
Strip(s) ==
    IF s = <<>> THEN s
    ELSE IF s[1] \in {SP, NL} THEN Strip(Tail(s))
    ELSE IF s[Len(s)] \in {SP, NL} THEN Strip(SubSeq(s, 1, Len(s) - 1))
    ELSE s

\* content.split(marker)[1].split("\n")[0]
MarkerLine(content, marker) == Split(Split(content, marker)[2], NL)[1]

\* [f.strip() for f in line.split(",") if f.strip()]
FeatureList(line) ==
    LET parts == Split(line, COMMA)
    IN  {Strip(parts[i]) : i \in 1..Len(parts)} \ {<<>>}

(***************************************************************************)
(* Messages                                                                *)
(***************************************************************************)
AIMessage(content, tool_calls) ==
    [type |-> "ai", content |-> content, tool_calls |-> tool_calls, name |-> ""]

ToolMessage(name, status) ==
    [type |-> "tool", content |-> <<status>>, tool_calls |-> <<>>, name |-> name]

\* what the oracle may answer in a run
OracleTurns ==
    { AIMessage(<<"text">>, <<>>),
      AIMessage(<<RULED_OUT, SP, "foo", COMMA, SP, "bar", NL, "text">>, <<>>),
      AIMessage(<<RULED_IN, SP, "foo", NL, NEXT_HYPOTHESIS, SP, "h1">>, <<>>),
      AIMessage(<<"text">>, <<"run_backtest">>),
      AIMessage(<<"text">>, <<"query_knowledge_base", "run_backtest">>) }

\* what the oracle may answer after the first RichCycles cycles
LateTurns ==
    { AIMessage(<<RULED_OUT, SP, "foo", COMMA, SP, "bar", NL, "text">>, <<>>),
      AIMessage(<<"text">>, <<"run_backtest">>) }

\* the oracle's possible answers in the cycle that follows `count` cycles
Turns(count) == IF count < RichCycles THEN OracleTurns ELSE LateTurns

\* the possible outcomes of a tool call in cycle `count`
Statuses(count) == IF count <= RichCycles THEN {"result", "Error"} ELSE {"result"}

(***************************************************************************)
(* Graph nodes                                                             *)
(***************************************************************************)
Init ==
    /\ node = "orchestrator"
    /\ messages = <<>>
    /\ cycle_count = 0
    /\ features_ruled_in = {}
    /\ features_ruled_out = {}
    /\ promoted_strategies = {}
    /\ current_hypothesis = <<>>
    /\ last_backtest_result = "None"
    /\ should_continue = TRUE
    /\ fn = "none"
    /\ args = <<>>
    /\ returned = FALSE
    /\ ret = <<>>
    /\ all_results = <<>>
    /\ CacheIdle

\* orchestrator_node: the returned "messages" value is [response], which the
\* operator.add channel appends to the history
orchestrator_node ==
    /\ node = "orchestrator"
    /\ cycle_count < MaxCycles
    /\ Len(messages) <= MaxHistory
    /\ \E response \in Turns(cycle_count) :
          messages' = messages \o <<response>>
    /\ cycle_count' = cycle_count + 1
    /\ node' = "route"
    /\ UNCHANGED <<features_ruled_in, features_ruled_out, promoted_strategies,
                   current_hypothesis, last_backtest_result, should_continue>>
    /\ UNCHANGED <<callVars, cacheVars>>

\* orchestrator_node_raises with the cycle counted before the oracle is invoked
orchestrator_node_raises_counted ==
    /\ node = "orchestrator"
    /\ cycle_count < MaxCycles
    /\ Len(messages) <= MaxHistory
    /\ cycle_count' = cycle_count + 1
    /\ node' = "ABORTED"
    /\ UNCHANGED <<messages, features_ruled_in, features_ruled_out,
                   promoted_strategies, current_hypothesis, last_backtest_result,
                   should_continue>>
    /\ UNCHANGED <<callVars, cacheVars>>

\* orchestrator_node when llm.invoke raises: the node returns no update, and
\* the exception leaves graph.stream and run_research_loop, which catch nothing
orchestrator_node_raises ==
    /\ node = "orchestrator"
    /\ cycle_count < MaxCycles
    /\ Len(messages) <= MaxHistory
    /\ node' = "ABORTED"
    /\ UNCHANGED <<messages, cycle_count, features_ruled_in, features_ruled_out,
                   promoted_strategies, current_hypothesis, last_backtest_result,
                   should_continue>>
    /\ UNCHANGED <<callVars, cacheVars>>

\* hasattr(last_message, "tool_calls") and last_message.tool_calls
HasToolCalls(last_message) ==
    last_message.type = "ai" /\ last_message.tool_calls # <<>>

\* RouteOf with the ceiling tested before the tool calls
RouteOf_ceiling_first(last_message, count, cont) ==
    IF count >= Ceiling THEN "end"
    ELSE IF HasToolCalls(last_message) THEN "tools"
    ELSE IF cont THEN "continue"
    ELSE "end"

\* RouteOf with the ceiling compared by > instead of >=
RouteOf_ceiling_late(last_message, count, cont) ==
    IF HasToolCalls(last_message) THEN "tools"
    ELSE IF count > Ceiling THEN "end"
    ELSE IF cont THEN "continue"
    ELSE "end"

\* RouteOf that never reads should_continue
RouteOf_flag_ignored(last_message, count, cont) ==
    IF HasToolCalls(last_message) THEN "tools"
    ELSE IF count >= Ceiling THEN "end"
    ELSE "continue"

\* RouteOf without the ceiling test
RouteOf_no_ceiling(last_message, count, cont) ==
    IF HasToolCalls(last_message) THEN "tools"
    ELSE IF cont THEN "continue"
    ELSE "end"

\* should_continue_research
RouteOf(last_message, count, cont) ==
    IF HasToolCalls(last_message) THEN "tools"
    ELSE IF count >= Ceiling THEN "end"
    ELSE IF cont THEN "continue"
    ELSE "end"

\* the mapping of add_conditional_edges
EdgeOf(route) ==
    CASE route = "tools" -> "tools"
      [] route = "continue" -> "update_state"
      [] route = "end" -> "END"

\* should_continue_research that folds the turn's directives into the state
\* before it ends the run
should_continue_research_extracting ==
    /\ node = "route"
    /\ node' = EdgeOf(RouteOf(Last(messages), cycle_count, should_continue))
    /\ IF node' = "END"
       THEN LET content == Last(messages).content
            IN  /\ features_ruled_in' =
                      IF Contains(content, RULED_IN)
                      THEN features_ruled_in \cup FeatureList(MarkerLine(content, RULED_IN))
                      ELSE features_ruled_in
                /\ features_ruled_out' =
                      IF Contains(content, RULED_OUT)
                      THEN features_ruled_out \cup FeatureList(MarkerLine(content, RULED_OUT))
                      ELSE features_ruled_out
                /\ current_hypothesis' =
                      IF Contains(content, NEXT_HYPOTHESIS)
                      THEN Strip(MarkerLine(content, NEXT_HYPOTHESIS))
                      ELSE current_hypothesis
       ELSE UNCHANGED <<features_ruled_in, features_ruled_out, current_hypothesis>>
    /\ UNCHANGED <<messages, cycle_count, promoted_strategies, last_backtest_result,
                   should_continue>>
    /\ UNCHANGED <<callVars, cacheVars>>

should_continue_research ==
    /\ node = "route"
    /\ node' = EdgeOf(RouteOf(Last(messages), cycle_count, should_continue))
    /\ UNCHANGED <<messages, cycle_count, features_ruled_in, features_ruled_out,
                   promoted_strategies, current_hypothesis, last_backtest_result,
                   should_continue>>
    /\ UNCHANGED <<callVars, cacheVars>>

\* ToolResults that reports the calls last to first
RECURSIVE ToolResults_reversed(_, _)
ToolResults_reversed(calls, statuses) ==
    IF calls = <<>> THEN {<<>>}
    ELSE { rest \o <<ToolMessage(calls[1], st)>> :
             st \in statuses, rest \in ToolResults_reversed(Tail(calls), statuses) }

\* the tool messages ToolNode returns for the calls of the last AI message:
\* one per call, in call order, each a result or an error report
RECURSIVE ToolResults(_, _)
ToolResults(calls, statuses) ==
    IF calls = <<>> THEN {<<>>}
    ELSE { <<ToolMessage(calls[1], st)>> \o rest :
             st \in statuses, rest \in ToolResults(Tail(calls), statuses) }

\* tool_node that counts every executed tool call as a cycle
tool_node_counting ==
    /\ node = "tools"
    /\ \E result \in ToolResults(Last(messages).tool_calls, Statuses(cycle_count)) :
          messages' = messages \o result
    /\ cycle_count' = cycle_count + Len(Last(messages).tool_calls)
    /\ node' = "orchestrator"
    /\ UNCHANGED <<features_ruled_in, features_ruled_out, promoted_strategies,
                   current_hypothesis, last_backtest_result, should_continue>>
    /\ UNCHANGED <<callVars, cacheVars>>

\* tool_node whose returned messages replace the history
tool_node_replacing ==
    /\ node = "tools"
    /\ \E result \in ToolResults(Last(messages).tool_calls, Statuses(cycle_count)) :
          messages' = result
    /\ node' = "orchestrator"
    /\ UNCHANGED <<cycle_count, features_ruled_in, features_ruled_out,
                   promoted_strategies, current_hypothesis, last_backtest_result,
                   should_continue>>
    /\ UNCHANGED <<callVars, cacheVars>>

\* tool_node that lets a tool's exception leave the graph
tool_node_aborting ==
    /\ node = "tools"
    /\ \E result \in ToolResults(Last(messages).tool_calls, Statuses(cycle_count)) :
          IF \E i \in 1..Len(result) : result[i].content = <<"Error">>
          THEN messages' = messages /\ node' = "ABORTED"
          ELSE messages' = messages \o result /\ node' = "orchestrator"
    /\ UNCHANGED <<cycle_count, features_ruled_in, features_ruled_out,
                   promoted_strategies, current_hypothesis, last_backtest_result,
                   should_continue>>
    /\ UNCHANGED <<callVars, cacheVars>>

\* tool_node, then the edge tools -> orchestrator
tool_node ==
    /\ node = "tools"
    /\ \E result \in ToolResults(Last(messages).tool_calls, Statuses(cycle_count)) :
          messages' = messages \o result
    /\ node' = "orchestrator"
    /\ UNCHANGED <<cycle_count, features_ruled_in, features_ruled_out,
                   promoted_strategies, current_hypothesis, last_backtest_result,
                   should_continue>>
    /\ UNCHANGED <<callVars, cacheVars>>

\* NewRuledIn that starts from an empty list when the marker is absent
NewRuledIn_resetting(content, old) ==
    IF Contains(content, RULED_IN)
    THEN old \cup FeatureList(MarkerLine(content, RULED_IN))
    ELSE {}

\* NewRuledIn that toggles the listed features instead of adding them
NewRuledIn_toggling(content, old) ==
    IF Contains(content, RULED_IN)
    THEN LET new == FeatureList(MarkerLine(content, RULED_IN))
         IN  (old \ new) \cup (new \ old)
    ELSE old

\* NewRuledOut that reads the list to the end of the text, not of the line
NewRuledOut_past_line(content, old) ==
    IF Contains(content, RULED_OUT)
    THEN old \cup FeatureList(Split(content, RULED_OUT)[2])
    ELSE old

\* the updates update_state_from_messages makes to the three parsed fields
NewRuledIn(content, old) ==
    IF Contains(content, RULED_IN)
    THEN old \cup FeatureList(MarkerLine(content, RULED_IN))
    ELSE old

\* NewRuledOut that also accepts the marker in lower case
NewRuledOut_caseless(content, old) ==
    IF Contains(content, RULED_OUT)
    THEN old \cup FeatureList(MarkerLine(content, RULED_OUT))
    ELSE IF Contains(content, "ruled out:")
    THEN old \cup FeatureList(MarkerLine(content, "ruled out:"))
    ELSE old

NewRuledOut(content, old) ==
    IF Contains(content, RULED_OUT)
    THEN old \cup FeatureList(MarkerLine(content, RULED_OUT))
    ELSE old

NewHypothesis(content, old) ==
    IF Contains(content, NEXT_HYPOTHESIS)
    THEN Strip(MarkerLine(content, NEXT_HYPOTHESIS))
    ELSE old

\* whether one of the three parsing branches raises: content.split(marker)[1]
\* is an IndexError when split gives fewer than two pieces
ExtractionRaises(content) ==
    \E marker \in {RULED_IN, RULED_OUT, NEXT_HYPOTHESIS} :
        Contains(content, marker) /\ Len(Split(content, marker)) < 2

\* should_continue in new_state = dict(state): no branch assigns it
NewShouldContinue(content, old) == old

\* update_state_from_messages, then the edge update_state -> orchestrator.
\* The node returns dict(state) with the parsed fields replaced, so its
\* "messages" value is the whole history, which the operator.add channel
\* appends to the history.
update_state_from_messages ==
    /\ node = "update_state"
    /\ LET content == Last(messages).content
       IN  IF ExtractionRaises(content)
           THEN /\ node' = "ABORTED"
                /\ UNCHANGED <<messages, features_ruled_in, features_ruled_out,
                               current_hypothesis, should_continue>>
           ELSE /\ features_ruled_in' = NewRuledIn(content, features_ruled_in)
                /\ features_ruled_out' = NewRuledOut(content, features_ruled_out)
                /\ current_hypothesis' = NewHypothesis(content, current_hypothesis)
                /\ should_continue' = NewShouldContinue(content, should_continue)
                /\ messages' = messages \o messages
                /\ node' = "orchestrator"
    /\ UNCHANGED <<cycle_count, promoted_strategies, last_backtest_result>>
    /\ UNCHANGED <<callVars, cacheVars>>

Next ==
    \/ orchestrator_node
    \/ orchestrator_node_raises
    \/ should_continue_research
    \/ tool_node
    \/ update_state_from_messages

Spec == Init /\ [][Next]_vars

(***************************************************************************)
(* The routing function on every combination of its inputs: a state about  *)
(* to be routed, with any cycle_count, any should_continue and any latest  *)
(* oracle turn; the graph then runs on from there.                         *)
(***************************************************************************)
InitRoute ==
    /\ node = "route"
    /\ \E turn \in OracleTurns : messages = <<turn>>
    /\ cycle_count \in 0..MaxCycles
    /\ features_ruled_in = {}
    /\ features_ruled_out = {}
    /\ promoted_strategies = {}
    /\ current_hypothesis = <<>>
    /\ last_backtest_result = "None"
    /\ should_continue \in BOOLEAN
    /\ fn = "none"
    /\ args = <<>>
    /\ returned = FALSE
    /\ ret = <<>>
    /\ all_results = <<>>
    /\ CacheIdle

SpecRoute == InitRoute /\ [][Next]_vars

(***************************************************************************)
(* Routing and cycle counting                                              *)
(***************************************************************************)
\* C1: a routing decision on a turn that carries pending tool invocations
\* goes to TOOLS, whatever cycle_count and should_continue are.
C1_ToolCallsRouteToTools ==
    [][(node = "route" /\ HasToolCalls(Last(messages))) => node' = "tools"]_vars

\* C1 witness: routed to TOOLS at the ceiling with should_continue cleared
C1_Witness ==
    /\ node = "tools"
    /\ HasToolCalls(Last(messages))
    /\ cycle_count >= Ceiling
    /\ ~should_continue

\* C2 as stated: once cycle_count has reached the ceiling, the next routing
\* decision goes to DONE.
C2_CeilingAlwaysDone ==
    [][(node = "route" /\ cycle_count >= Ceiling) => node' = "END"]_vars

\* C2 amended: once cycle_count has reached the ceiling, the next routing
\* decision on a turn without pending tool invocations goes to DONE even
\* though should_continue is true; a turn with pending tool invocations is
\* still routed to TOOLS.
C2_CeilingDoneUnlessToolCalls ==
    [][(node = "route" /\ cycle_count >= Ceiling)
          => node' = IF HasToolCalls(Last(messages)) THEN "tools" ELSE "END"]_vars

\* C2 witness: a run ended at the ceiling with should_continue still true
C2_Witness ==
    /\ node = "END"
    /\ cycle_count = Ceiling
    /\ should_continue
    /\ ~HasToolCalls(Last(messages))

\* C3: cycle_count starts at 0, grows by exactly 1 on every orchestrator
\* step in which the oracle answers, is unchanged by every other step, and
\* never decreases.
C3_CycleCount ==
    /\ cycle_count = 0
    /\ [][/\ (node = "orchestrator" /\ node' = "route")
                => cycle_count' = cycle_count + 1
          /\ ~(node = "orchestrator" /\ node' = "route")
                => cycle_count' = cycle_count
          /\ cycle_count' >= cycle_count]_vars

\* C3 witness: the second oracle invocation, made after a TOOLS step that
\* executed two tool calls, has brought cycle_count to 2
C3_Witness ==
    /\ node = "route"
    /\ cycle_count = 2
    /\ Len(messages) = 4
    /\ Len(messages[1].tool_calls) = 2
    /\ messages[2].type = "tool"
    /\ messages[3].type = "tool"

\* C4: a routing decision on a turn without pending tool invocations goes to
\* DONE if cycle_count has reached the ceiling, else to DONE if
\* should_continue is false, else to UPDATING; and no step is taken from DONE.
C4_RoutingOrder ==
    /\ [][(node = "route" /\ ~HasToolCalls(Last(messages)))
            => node' = IF cycle_count >= Ceiling THEN "END"
                       ELSE IF ~should_continue THEN "END"
                       ELSE "update_state"]_vars
    /\ [][node # "END"]_vars

\* C4 witness: a run ended below the ceiling because should_continue is false
C4_Witness ==
    /\ node = "END"
    /\ cycle_count < Ceiling
    /\ ~should_continue
    /\ ~HasToolCalls(Last(messages))

(***************************************************************************)
(* Evaluation engine: the functions of backtester.py applied to drawn      *)
(* arguments.  No graph run is in progress in these specifications.        *)
(***************************************************************************)
NoRun ==
    /\ node = "none"
    /\ messages = <<>>
    /\ cycle_count = 0
    /\ features_ruled_in = {}
    /\ features_ruled_out = {}
    /\ promoted_strategies = {}
    /\ current_hypothesis = <<>>
    /\ last_backtest_result = "None"
    /\ should_continue = TRUE

\* fn(args) returns value
Return(name, value) ==
    /\ fn = name
    /\ ~returned
    /\ returned' = TRUE
    /\ ret' = value
    /\ UNCHANGED <<fn, args, all_results>>
    /\ UNCHANGED <<graphVars, cacheVars>>

(***************************************************************************)
(* Verdict.  Sharpe, drawdown and overfitting score are in hundredths.     *)
(***************************************************************************)
\* the verdict rule of _aggregate_results
Verdict(avg_sharpe, avg_drawdown, overfitting_score) ==
    IF avg_sharpe > 150 /\ avg_drawdown > -12 /\ overfitting_score < 50 THEN "promote"
    ELSE IF avg_sharpe > 80 THEN "iterate"
    ELSE "discard"

SharpeValues == {50, 80, 81, 150, 151, 160}
DrawdownValues == {-20, -13, -12, -11, -10, 0}
OverfitValues == {0, 30, 49, 50, 51}

InitVerdict ==
    /\ NoRun
    /\ fn = "_aggregate_results"
    /\ args \in [avg_sharpe : SharpeValues, avg_drawdown : DrawdownValues,
                 overfitting_score : OverfitValues]
    /\ returned = FALSE
    /\ ret = <<>>
    /\ all_results = <<>>
    /\ CacheIdle

aggregate_results ==
    Return("_aggregate_results",
           [verdict |-> Verdict(args.avg_sharpe, args.avg_drawdown,
                                args.overfitting_score)])

SpecVerdict == InitVerdict /\ [][aggregate_results]_vars

\* C5: the verdict is promote exactly when Sharpe > 1.5, drawdown >= -0.12
\* (the value -0.12 included) and overfitting score < 0.5; otherwise iterate
\* exactly when Sharpe > 0.8; otherwise discard.
C5_VerdictPolicy ==
    (fn = "_aggregate_results" /\ returned) =>
        ret.verdict =
            IF /\ args.avg_sharpe > 150
               /\ args.avg_drawdown >= -12
               /\ args.overfitting_score < 50
            THEN "promote"
            ELSE IF args.avg_sharpe > 80 THEN "iterate"
            ELSE "discard"

(***************************************************************************)
(* Triple-barrier labelling.  Prices are integers, stop_loss and           *)
(* take_profit are in percent, and the barrier comparisons are made on     *)
(* the products (exact on the prices used here).  The index label of a     *)
(* candle is its position in the series counted from 1, standing for the   *)
(* timestamp of the DatetimeIndex that fetch_ohlcv builds.                 *)
(***************************************************************************)
\* StrategyConfig.stop_loss_pct and take_profit_pct, in percent
STOP_LOSS_PCT == 3
TAKE_PROFIT_PCT == 6
\* the max_holding that run_backtest passes
MAX_HOLDING == 48

\* bounds of the drawn price series
MaxSeriesLen == 5
MaxDrawnHolding == 3

\* future >= entry * (1 + take_profit), at position j for the entry at i
TouchesTakeProfit(close, take_profit, i, j) ==
    close[j] * 100 >= close[i] * (100 + take_profit)

\* future <= entry * (1 - stop_loss)
TouchesStopLoss(close, stop_loss, i, j) ==
    close[j] * 100 <= close[i] * (100 - stop_loss)

\* Series.idxmax() of a boolean series indexed by the labels lo..hi: the label
\* of the first True, and the label of the first element when none is True
RECURSIVE IdxMaxFrom(_, _, _, _)
IdxMaxFrom(series, lo, hi, j) ==
    IF j > hi THEN lo
    ELSE IF series[j] THEN j
    ELSE IdxMaxFrom(series, lo, hi, j + 1)

IdxMax(series, lo, hi) == IdxMaxFrom(series, lo, hi, lo)

\* truth value of an index label (a timestamp is always true)
Truthy(label) == label # 0

\* LabelAt whose entry price is the close of the candle before i
LabelAt_lookback(close, stop_loss, take_profit, max_holding, i) ==
    LET future == (i + 1)..(i + max_holding)
        e == IF i > 1 THEN i - 1 ELSE i
        tp == [j \in future |-> close[j] * 100 >= close[e] * (100 + take_profit)]
        sl == [j \in future |-> close[j] * 100 <= close[e] * (100 - stop_loss)]
        tp_hit == IdxMax(tp, i + 1, i + max_holding)
        sl_hit == IdxMax(sl, i + 1, i + max_holding)
    IN  IF Truthy(tp_hit) /\ (~Truthy(sl_hit) \/ tp_hit <= sl_hit) THEN 1
        ELSE IF Truthy(sl_hit) THEN 0
        ELSE 0

\* one iteration of the loop of _triple_barrier_label
LabelAt(close, stop_loss, take_profit, max_holding, i) ==
    LET future == (i + 1)..(i + max_holding)
        tp == [j \in future |-> TouchesTakeProfit(close, take_profit, i, j)]
        sl == [j \in future |-> TouchesStopLoss(close, stop_loss, i, j)]
        tp_hit == IdxMax(tp, i + 1, i + max_holding)
        sl_hit == IdxMax(sl, i + 1, i + max_holding)
    IN  IF Truthy(tp_hit) /\ (~Truthy(sl_hit) \/ tp_hit <= sl_hit) THEN 1
        ELSE IF Truthy(sl_hit) THEN 0
        ELSE 0

\* TripleBarrierLabel that labels the final max_holding positions 0
TripleBarrierLabel_padded(close, stop_loss, take_profit, max_holding) ==
    [i \in 1..Len(close) |->
        IF i <= Len(close) - max_holding
        THEN LabelAt(close, stop_loss, take_profit, max_holding, i)
        ELSE 0]

\* _triple_barrier_label: the labels of the positions 1..len(close)-max_holding
TripleBarrierLabel(close, stop_loss, take_profit, max_holding) ==
    [i \in 1..(Len(close) - max_holding) |->
        LabelAt(close, stop_loss, take_profit, max_holding, i)]

Prices == {97, 100, 106, 110}

RECURSIVE SeqsUpTo(_, _)
SeqsUpTo(S, n) ==
    IF n = 0 THEN {<<>>}
    ELSE LET shorter == SeqsUpTo(S, n - 1)
         IN  shorter \cup {Append(q, x) : q \in {r \in shorter : Len(r) = n - 1}, x \in S}

\* series over the engine's 48-candle horizon: a 10% rise at once that holds,
\* a flat path, and a 10% rise at the second candle
HorizonSeries ==
    { [i \in 1..(MAX_HOLDING + 1) |-> IF i = 1 THEN 100 ELSE 110],
      [i \in 1..(MAX_HOLDING + 1) |-> 100],
      [i \in 1..(MAX_HOLDING + 2) |-> IF i <= 2 THEN 100 ELSE 110] }

InitLabel ==
    /\ NoRun
    /\ fn = "_triple_barrier_label"
    /\ \/ /\ args \in [close : SeqsUpTo(Prices, MaxSeriesLen) \ {<<>>},
                       stop_loss : {STOP_LOSS_PCT},
                       take_profit : {TAKE_PROFIT_PCT},
                       max_holding : 1..MaxDrawnHolding]
       \/ /\ args \in [close : HorizonSeries,
                       stop_loss : {STOP_LOSS_PCT},
                       take_profit : {TAKE_PROFIT_PCT},
                       max_holding : {MAX_HOLDING}]
    /\ returned = FALSE
    /\ ret = <<>>
    /\ all_results = <<>>
    /\ CacheIdle

triple_barrier_label ==
    Return("_triple_barrier_label",
           TripleBarrierLabel(args.close, args.stop_loss, args.take_profit,
                              args.max_holding))

SpecLabel == InitLabel /\ [][triple_barrier_label]_vars

\* the window of the entry at i
Window(i) == (i + 1)..(i + args.max_holding)

\* C6: the label is 1 whenever the take-profit level is reached at some candle
\* of the window and the stop-loss level is touched at no strictly earlier
\* candle of the window.
C6_ProfitLabel ==
    (fn = "_triple_barrier_label" /\ returned) =>
        \A i \in 1..Len(ret) :
            (\E j \in Window(i) :
                /\ TouchesTakeProfit(args.close, args.take_profit, i, j)
                /\ \A k \in Window(i) :
                      k < j => ~TouchesStopLoss(args.close, args.stop_loss, i, k))
            => ret[i] = 1

\* C7: the label is 0 whenever the stop-loss level is touched in the window
\* strictly before any take-profit touch, and whenever neither level is
\* touched in the window.
C7_LossLabel ==
    (fn = "_triple_barrier_label" /\ returned) =>
        \A i \in 1..Len(ret) :
            (\/ \E j \in Window(i) :
                   /\ TouchesStopLoss(args.close, args.stop_loss, i, j)
                   /\ \A k \in Window(i) :
                         k <= j => ~TouchesTakeProfit(args.close, args.take_profit, i, k)
             \/ \A j \in Window(i) :
                   /\ ~TouchesStopLoss(args.close, args.stop_loss, i, j)
                   /\ ~TouchesTakeProfit(args.close, args.take_profit, i, j))
            => ret[i] = 0

(***************************************************************************)
(* Walk-forward split.  A frame is the sequence of its index timestamps,   *)
(* test_ratio is in percent.                                               *)
(*                                                                         *)
(* int(len(X) * (1 - test_ratio)) is evaluated in IEEE double arithmetic.  *)
(* For test_ratio 0.25 and 0.5 both operations are exact.  For the default *)
(* 0.3, 1 - 0.3 is the double 0.7 = 0.7 - 0.4 * 2^-53, so len * 0.7 is     *)
(* 7*len/10 - 0.4*len * 2^-53 before rounding.  When 7*len/10 is not an    *)
(* integer the truncation is floor(7*len/10).  When it is an integer k,    *)
(* the doubles next to the product are k and k - 2^(e-52), where 2^e is    *)
(* the largest power of two below k; the product rounds to k unless it is  *)
(* nearer to the lower neighbour, that is unless 0.4*len > 2^e, and then   *)
(* the truncation is k - 1.                                                *)
(***************************************************************************)
\* the default test_ratio of _walk_forward_split, in percent
TEST_RATIO == 30

\* bound of the drawn frame lengths
MaxRows == 100

\* the largest e with 2^e < k, for k >= 2
RECURSIVE BinadeBelow(_, _)
BinadeBelow(k, e) == IF 2^(e + 1) < k THEN BinadeBelow(k, e + 1) ELSE e

\* int(n * (1 - test_ratio))
SplitIndex(n, test_ratio) ==
    IF test_ratio = TEST_RATIO
    THEN LET k == (7 * n) \div 10
         IN  IF n > 0 /\ n % 10 = 0 /\ 2 * n > 5 * 2^BinadeBelow(k, 0)
             THEN k - 1
             ELSE k
    ELSE (n * (100 - test_ratio)) \div 100

\* frame.iloc[:split] and frame.iloc[split:]
ILocBefore(frame, split) == SubSeq(frame, 1, IF split < Len(frame) THEN split ELSE Len(frame))
ILocFrom(frame, split) == SubSeq(frame, split + 1, Len(frame))

\* _walk_forward_split
WalkForwardSplit(X, y, test_ratio) ==
    LET split == SplitIndex(Len(X), test_ratio)
    IN  [X_train |-> ILocBefore(X, split), X_test |-> ILocFrom(X, split),
         y_train |-> ILocBefore(y, split), y_test |-> ILocFrom(y, split),
         dates_test |-> ILocFrom(X, split)]

\* the index of a frame of n candles starting at t0, one every step hours
Frame(n, t0, step) == [i \in 1..n |-> t0 + (i - 1) * step]

\* the frames run_backtest splits: n feature rows, and labels for the rows
\* that have MAX_HOLDING candles after them
InitSplit ==
    /\ NoRun
    /\ fn = "_walk_forward_split"
    /\ \E n \in 0..MaxRows, step \in {1, 4}, ratio \in {25, TEST_RATIO, 50} :
          args = [X |-> Frame(n, 1000, step),
                  y |-> Frame(IF n > MAX_HOLDING THEN n - MAX_HOLDING ELSE 0, 1000, step),
                  test_ratio |-> ratio]
    /\ returned = FALSE
    /\ ret = <<>>
    /\ all_results = <<>>
    /\ CacheIdle

walk_forward_split ==
    Return("_walk_forward_split", WalkForwardSplit(args.X, args.y, args.test_ratio))

SpecSplit == InitSplit /\ [][walk_forward_split]_vars

\* C8: the split index is floor(L * (1 - r)); the training partition is the
\* rows before it and the test partition the rows from it on; and when both
\* are non-empty every training timestamp is below every test timestamp.
C8_WalkForwardSplit ==
    (fn = "_walk_forward_split" /\ returned) =>
        LET L == Len(args.X)
            split == (L * (100 - args.test_ratio)) \div 100
        IN  /\ Len(ret.X_train) = split
            /\ ret.X_train = [i \in 1..split |-> args.X[i]]
            /\ ret.X_test = [i \in 1..(L - split) |-> args.X[split + i]]
            /\ ret.X_train \o ret.X_test = args.X
            /\ \A i \in 1..Len(ret.X_train), j \in 1..Len(ret.X_test) :
                  ret.X_train[i] < ret.X_test[j]

(***************************************************************************)
(* State extraction: update_state_from_messages applied to drawn oracle    *)
(* turns and drawn previous field values.                                  *)
(***************************************************************************)
\* bound of the exhaustively drawn lines
MaxLineLen == 3

LineTokens == {RULED_IN, RULED_OUT, NEXT_HYPOTHESIS, PROMOTE, COMMA, SP, "foo", "bar", "text"}

LongLines ==
    { <<RULED_OUT, SP, "foo", COMMA, SP, "bar">>,
      <<RULED_IN, SP, "bar", COMMA, "foo", SP>>,
      <<NEXT_HYPOTHESIS, SP, "foo", SP, "bar", SP>>,
      <<"text", SP, RULED_OUT, "foo", COMMA, COMMA, SP, RULED_OUT, "bar">> }

\* texts that resemble a marker without containing one
MalformedMarkers == {"RULED IN", "ruled out:", "NEXT HYPOTHESIS"}

MalformedLines ==
    { <<"RULED IN", SP, "foo">>,
      <<"ruled out:", SP, "foo", COMMA, SP, "bar">>,
      <<"NEXT HYPOTHESIS", SP, "text">>,
      <<"RULED IN", RULED_OUT, SP, "bar">> }

Lines == SeqsUpTo(LineTokens, MaxLineLen) \cup LongLines \cup MalformedLines

\* the lines that may follow a first line
SecondLines ==
    { <<>>,
      <<"text">>,
      <<RULED_OUT, SP, "bar">>,
      <<RULED_IN, "text", COMMA>>,
      <<NEXT_HYPOTHESIS, SP, "text">>,
      <<PROMOTE, SP, "foo">> }

\* turns of one line and of two lines
Contents == Lines \cup {a \o <<NL>> \o b : a \in Lines, b \in SecondLines}

PriorStates ==
    { [ruled_in |-> {}, ruled_out |-> {}, hypothesis |-> <<>>],
      [ruled_in |-> {<<"foo">>}, ruled_out |-> {<<"baz">>}, hypothesis |-> <<"h0">>] }

InitExtract ==
    /\ node = "update_state"
    /\ \E content \in Contents : messages = <<AIMessage(content, <<>>)>>
    /\ cycle_count = 1
    /\ \E prior \in PriorStates :
          /\ features_ruled_in = prior.ruled_in
          /\ features_ruled_out = prior.ruled_out
          /\ current_hypothesis = prior.hypothesis
    /\ promoted_strategies = {}
    /\ last_backtest_result = "None"
    /\ should_continue = TRUE
    /\ fn = "none"
    /\ args = <<>>
    /\ returned = FALSE
    /\ ret = <<>>
    /\ all_results = <<>>
    /\ CacheIdle

SpecExtract == InitExtract /\ [][update_state_from_messages]_vars

\* number of occurrences of a token
Occurrences(s, tok) == Cardinality({i \in 1..Len(s) : s[i] = tok})

SetMin(S) == CHOOSE x \in S : \A y \in S : x <= y
SetMax(S) == CHOOSE x \in S : \A y \in S : x >= y

\* the text after the single occurrence of marker, up to the end of its line
PayloadOf(content, marker) ==
    LET p == CHOOSE i \in 1..Len(content) : content[i] = marker
        ends == {q \in (p + 1)..Len(content) : content[q] = NL}
    IN  SubSeq(content, p + 1, IF ends = {} THEN Len(content) ELSE SetMin(ends) - 1)

\* a text without its leading and trailing blanks
Trimmed(s) ==
    LET solid == {i \in 1..Len(s) : s[i] \notin {SP, NL}}
    IN  IF solid = {} THEN <<>> ELSE SubSeq(s, SetMin(solid), SetMax(solid))

\* the trimmed, non-empty, comma-separated identifiers of a payload
Identifiers(payload) ==
    LET n == Len(payload)
        cut(i) == i = 0 \/ i = n + 1 \/ payload[i] = COMMA
    IN  { Trimmed(SubSeq(payload, a, b)) :
            <<a, b>> \in { ab \in (1..(n + 1)) \X (0..n) :
                            /\ ab[1] <= ab[2] + 1
                            /\ cut(ab[1] - 1)
                            /\ cut(ab[2] + 1)
                            /\ \A i \in ab[1]..ab[2] : payload[i] # COMMA } } \ {<<>>}

\* C9: when the latest turn has one RULED OUT line, the UPDATING step sets
\* features_ruled_out to its previous content united with exactly the
\* trimmed, non-empty, comma-separated identifiers after the marker on that
\* line, and leaves features_ruled_in, current_hypothesis and
\* promoted_strategies unchanged when their markers are absent.
C9_RuledOutLine ==
    [][node = "update_state" =>
        LET content == Last(messages).content
        IN  /\ Occurrences(content, RULED_OUT) = 1 =>
                  features_ruled_out' =
                      features_ruled_out \cup Identifiers(PayloadOf(content, RULED_OUT))
            /\ ~Contains(content, RULED_IN) => features_ruled_in' = features_ruled_in
            /\ ~Contains(content, NEXT_HYPOTHESIS) => current_hypothesis' = current_hypothesis
            /\ ~Contains(content, PROMOTE) => promoted_strategies' = promoted_strategies]_vars

\* C9 witness: 'RULED OUT: foo, bar' followed by a line of other text has been
\* folded into a state that had ruled out baz and ruled in foo
C9_Witness ==
    /\ node = "orchestrator"
    /\ Last(messages).content = <<RULED_OUT, SP, "foo", COMMA, SP, "bar", NL, "text">>
    /\ features_ruled_out = {<<"baz">>, <<"foo">>, <<"bar">>}
    /\ features_ruled_in = {<<"foo">>}
    /\ current_hypothesis = <<"h0">>
    /\ promoted_strategies = {}

\* C10: after the UPDATING step, extracting again from the same turn changes
\* none of features_ruled_in, features_ruled_out and current_hypothesis
\* (promoted_strategies is not written by the extractor).
C10_Idempotent ==
    (node = "orchestrator" /\ messages # <<>>) =>
        LET content == Last(messages).content
        IN  /\ NewRuledIn(content, features_ruled_in) = features_ruled_in
            /\ NewRuledOut(content, features_ruled_out) = features_ruled_out
            /\ NewHypothesis(content, current_hypothesis) = current_hypothesis
            /\ promoted_strategies = {}

\* C10 witness: a turn carrying all three directives has been folded in, and
\* each changed its field
C10_Witness ==
    /\ node = "orchestrator"
    /\ Last(messages).content =
          <<RULED_IN, SP, "bar", COMMA, "foo", SP, NL, NEXT_HYPOTHESIS, SP, "text">>
    /\ features_ruled_in = {<<"foo">>, <<"bar">>}
    /\ current_hypothesis = <<"text">>

(***************************************************************************)
(* The research loop's accumulated state and history.                      *)
(***************************************************************************)

IsPrefix(s, t) == Len(s) <= Len(t) /\ SubSeq(t, 1, Len(s)) = s

\* the tool calls requested by the last message of the history
RequestedCalls == Last(messages).tool_calls

\* C11: whenever an update step has completed, no feature is both in
\* features_ruled_in and in features_ruled_out.
C11_RuledInOutDisjoint ==
    node = "orchestrator" => features_ruled_in \cap features_ruled_out = {}

\* C12: features_ruled_in, features_ruled_out and promoted_strategies only
\* grow: every step keeps each element they already hold, so each is a
\* superset of its value in every earlier state of the run.
C12_ListsOnlyGrow ==
    [][/\ features_ruled_in \subseteq features_ruled_in'
       /\ features_ruled_out \subseteq features_ruled_out'
       /\ promoted_strategies \subseteq promoted_strategies']_vars

C12_Witness ==
    /\ node = "route"
    /\ cycle_count = 3
    /\ ~Contains(Last(messages).content, RULED_IN)
    /\ features_ruled_in = {<<"foo">>}
    /\ features_ruled_out = {<<"foo">>, <<"bar">>}

\* C13: the history is append-only: after every step the earlier history is
\* a prefix of the later one.
C13_HistoryAppendOnly == [][IsPrefix(messages, messages')]_vars

C13_Witness ==
    /\ node = "orchestrator"
    /\ Len(messages) >= 4
    /\ \E i \in 1..Len(messages) : messages[i].type = "tool"
    /\ \E h \in 1..Len(messages) :
          Len(messages) = 2 * h /\ SubSeq(messages, h + 1, 2 * h) = SubSeq(messages, 1, h)

\* C14: a tools step appends exactly one result turn per requested tool call,
\* in the order the calls were requested, after the unchanged earlier history,
\* and hands control back to the orchestrator.
C14_OneResultPerCall ==
    [][node = "tools" =>
         /\ Len(messages') = Len(messages) + Len(RequestedCalls)
         /\ SubSeq(messages', 1, Len(messages)) = messages
         /\ \A i \in 1..Len(RequestedCalls) :
               /\ messages'[Len(messages) + i].type = "tool"
               /\ messages'[Len(messages) + i].name = RequestedCalls[i]
         /\ node' = "orchestrator"]_vars

C14_Witness ==
    /\ node = "orchestrator"
    /\ Len(messages) = 3
    /\ messages[1].tool_calls = <<"query_knowledge_base", "run_backtest">>
    /\ messages[2] = ToolMessage("query_knowledge_base", "result")
    /\ messages[3] = ToolMessage("run_backtest", "result")

C16_OracleFailureAborts ==
    /\ [][node' = "ABORTED" =>
            /\ node = "orchestrator"
            /\ messages' = messages
            /\ cycle_count' = cycle_count]_vars
    /\ [][node # "ABORTED"]_vars

C16_Witness ==
    /\ node = "ABORTED"
    /\ cycle_count = 1
    /\ Len(messages) = 2
    /\ messages[2].type = "tool"

\* C18: an orchestrator step appends the context turn and then the oracle's
\* response to the history.
C18_ContextTurnAppended ==
    [][(node = "orchestrator" /\ node' = "route") =>
         /\ Len(messages') = Len(messages) + 2
         /\ messages'[Len(messages) + 1].type = "human"
         /\ messages'[Len(messages) + 2].type = "ai"]_vars

\* the strategy a turn's single promotion marker names: the one word after it
PromotedName(content) ==
    LET name == Trimmed(PayloadOf(content, PROMOTE))
    IN  IF /\ Occurrences(content, PROMOTE) = 1
           /\ Len(name) = 1
           /\ name[1] \notin {RULED_IN, RULED_OUT, NEXT_HYPOTHESIS, COMMA}
        THEN name
        ELSE <<>>

\* C19: an update step on a turn whose promotion marker names a strategy adds
\* that name to promoted_strategies.
C19_PromotionRecorded ==
    [][(node = "update_state" /\ PromotedName(Last(messages).content) # <<>>)
          => PromotedName(Last(messages).content) \in promoted_strategies']_vars

\* C20: once a tools step has appended a run_backtest result,
\* last_backtest_result holds a backtest result.
C20_LastBacktestResult ==
    (/\ node = "orchestrator"
     /\ Len(messages) > 0
     /\ Last(messages) = ToolMessage("run_backtest", "result"))
        => last_backtest_result # "None"

\* C23: the label at t is the label computed from the prices t..t+horizon
\* alone, so two series that agree on those prices get equal labels at t
\* whatever their prices before t and after t+horizon.
C23_LabelFromWindowOnly ==
    (fn = "_triple_barrier_label" /\ returned) =>
        \A t \in 1..Len(ret) :
            ret[t] = LabelAt(SubSeq(args.close, t, t + args.max_holding),
                             args.stop_loss, args.take_profit, args.max_holding, 1)

\* a label 1 at the third position, after a price that would have put the
\* take-profit level out of reach had it been the entry
C23_Witness ==
    /\ fn = "_triple_barrier_label"
    /\ returned
    /\ args.max_holding = 2
    /\ args.close = <<110, 110, 100, 106, 106>>
    /\ Len(ret) = 3
    /\ ret[3] = 1

\* C24: the label series holds one label, 0 or 1, for each of the first
\* L - horizon positions of an input of length L, in order, and none for the
\* final horizon positions; it is empty when L <= horizon.
C24_LabelSeriesLength ==
    (fn = "_triple_barrier_label" /\ returned) =>
        /\ DOMAIN ret = 1..(Len(args.close) - args.max_holding)
        /\ Len(args.close) <= args.max_holding => ret = <<>>
        /\ \A i \in DOMAIN ret : ret[i] \in {0, 1}

C24_Witness ==
    /\ fn = "_triple_barrier_label"
    /\ returned
    /\ Len(args.close) = 5
    /\ args.max_holding = 3
    /\ Len(ret) = 2

(***************************************************************************)
(* Termination.  The run under the assumptions that every oracle call and  *)
(* every tool call returns and that the oracle does not request tools      *)
(* forever: within the explored cycles, its last answer requests none.     *)
(***************************************************************************)
\* the oracle's answers when it is bound to stop requesting tools
ReturningTurns(count) ==
    IF count < MaxCycles - 1
    THEN {AIMessage(<<"text">>, <<>>), AIMessage(<<"text">>, <<"run_backtest">>)}
    ELSE {AIMessage(<<"text">>, <<>>)}

\* orchestrator_node with an oracle call that returns
orchestrator_node_returning ==
    /\ node = "orchestrator"
    /\ cycle_count < MaxCycles
    /\ \E response \in ReturningTurns(cycle_count) :
          messages' = messages \o <<response>>
    /\ cycle_count' = cycle_count + 1
    /\ node' = "route"
    /\ UNCHANGED <<features_ruled_in, features_ruled_out, promoted_strategies,
                   current_hypothesis, last_backtest_result, should_continue>>
    /\ UNCHANGED <<callVars, cacheVars>>

NextReturning ==
    \/ orchestrator_node_returning
    \/ should_continue_research
    \/ tool_node
    \/ update_state_from_messages

\* every node is a blocking call that returns, so an enabled step is taken
SpecTermination == Init /\ [][NextReturning]_vars /\ WF_vars(NextReturning)

\* C29: every run in which the oracle and the tools return, and the oracle
\* does not request tools forever, eventually reaches DONE.
C29_Termination == <>(node = "END")

\* a run ended at the ceiling after update steps and a tools step
C29_Witness ==
    /\ node = "END"
    /\ cycle_count = Ceiling
    /\ \E i \in 1..Len(messages) : messages[i].type = "tool"
    /\ Len(messages) > 2 * Ceiling

\* C21: the oracle's output can clear should_continue: for some content of
\* the oracle's latest turn the update step leaves should_continue false.
C21_FlagCanBeCleared ==
    (node = "update_state" /\ should_continue) =>
        \E content \in Contents : NewShouldContinue(content, should_continue) = FALSE

\* C22: the update step completes for every content of the latest turn and
\* hands control back to the orchestrator; a field whose marker does not occur
\* exactly (absent or misspelt) is left as it was.
C22_ExtractorNeverFails ==
    [][node = "update_state" =>
         /\ node' = "orchestrator"
         /\ ~Contains(Last(messages).content, RULED_IN)
               => features_ruled_in' = features_ruled_in
         /\ ~Contains(Last(messages).content, RULED_OUT)
               => features_ruled_out' = features_ruled_out
         /\ ~Contains(Last(messages).content, NEXT_HYPOTHESIS)
               => current_hypothesis' = current_hypothesis]_vars

\* a turn with a misspelt marker has been processed and changed nothing
C22_Witness ==
    /\ node = "orchestrator"
    /\ Last(messages).content = <<"ruled out:", SP, "foo", COMMA, SP, "bar">>
    /\ features_ruled_in = {<<"foo">>}
    /\ features_ruled_out = {<<"baz">>}
    /\ current_hypothesis = <<"h0">>

\* C28: the update step adds no turn to the history.
C28_UpdateAddsNoTurn ==
    [][node = "update_state" => messages' = messages]_vars

\* C30: cycle_count never exceeds the ceiling.
C30_CeilingBoundsCycles == cycle_count <= Ceiling

\* C30 amended: from the ceiling on no update step runs and the oracle is
\* invoked again only after a tools step.
C30_PastCeilingOnlyByTools ==
    cycle_count >= Ceiling =>
        /\ node # "update_state"
        /\ node = "orchestrator" => Last(messages).type = "tool"

C30_Witness ==
    /\ cycle_count = Ceiling + 1
    /\ node = "route"

\* C31: when the run has ended, the directives of the oracle's final turn are
\* in the final state.
C31_FinalTurnExtracted ==
    node = "END" =>
        LET content == Last(messages).content
        IN  /\ Contains(content, RULED_IN)
                  => FeatureList(MarkerLine(content, RULED_IN)) \subseteq features_ruled_in
            /\ Contains(content, RULED_OUT)
                  => FeatureList(MarkerLine(content, RULED_OUT)) \subseteq features_ruled_out
            /\ Contains(content, NEXT_HYPOTHESIS)
                  => current_hypothesis = Strip(MarkerLine(content, NEXT_HYPOTHESIS))

\* C31 amended: a turn without pending tool calls is either handed to the
\* update step or ends the run; the turn that ends the run is not scanned,
\* the state is left as it was, and no step follows.
C31_FinalTurnNotScanned ==
    /\ [][(node = "route" /\ ~HasToolCalls(Last(messages))) =>
            \/ node' = "update_state"
            \/ /\ node' = "END"
               /\ features_ruled_in' = features_ruled_in
               /\ features_ruled_out' = features_ruled_out
               /\ current_hypothesis' = current_hypothesis]_vars
    /\ [][node = "END" => node' = "END"]_vars

\* the run has ended on a turn that rules features out, and none is ruled out
C31_Witness ==
    /\ node = "END"
    /\ Contains(Last(messages).content, RULED_OUT)
    /\ features_ruled_out = {}

\* C32: the partitions run_backtest hands to the classifier (split at the
\* default ratio, labels on the first L - 48 rows) are aligned: X_train and
\* y_train have the same index, and X_test, y_test and dates_test have the
\* same index (a frame is the sequence of its index timestamps).
C32_PartitionsAligned ==
    (fn = "_walk_forward_split" /\ returned /\ args.test_ratio = TEST_RATIO) =>
        /\ ret.X_train = ret.y_train
        /\ ret.X_test = ret.y_test
        /\ ret.dates_test = ret.X_test

\* the rows of the close series read for the label of row i:
\* prices.iloc[i + 1 : i + max_holding + 1]
FutureRows(i, max_holding) == (i + 1)..(i + max_holding)

\* the timestamps of a frame
Timestamps(frame) == {frame[k] : k \in 1..Len(frame)}

\* C33: at run_backtest's split no label of the training partition is computed
\* from a price whose timestamp belongs to the test partition.
C33_NoLeakAcrossSplit ==
    (fn = "_walk_forward_split" /\ returned /\ args.test_ratio = TEST_RATIO) =>
        \A i \in 1..Len(args.X) :
            args.X[i] \in Timestamps(ret.y_train) =>
                \A j \in FutureRows(i, MAX_HOLDING) :
                    args.X[j] \notin Timestamps(ret.X_test)

(***************************************************************************)
(* run_backtest: the loop over the configured assets and the aggregation.  *)
(***************************************************************************)
\* strategies are drawn with at most this many assets
MaxAssets == 3

FEATURE_REGISTRY ==
    {"rsi_14", "rsi_7", "macd_signal", "macd_diff", "atr_14", "bb_width",
     "volume_zscore", "obv", "vwap_distance", "log_return",
     "rolling_volatility_24", "funding_rate", "open_interest_change"}

Assets == {"BTC/USDT", "ETH/USDT", "SOL/USDT"}

\* config.features of the strategies drawn
FeatureLists ==
    {<<"log_return">>, <<"rsi_14", "funding_rate">>, <<"rsi_14", "momentum_9">>,
     <<"sentiment">>}

\* fetch_ohlcv: the exception it raises ("" when it returns a frame); the
\* exchange answers a symbol with candles or with none
fetch_ohlcv(symbol, exchange) ==
    IF exchange[symbol] = "none" THEN "ValueError: No data returned" ELSE ""

\* compute_features: the exception it raises ("" when it returns a frame)
compute_features(feature_names) ==
    IF \E i \in 1..Len(feature_names) : feature_names[i] \notin FEATURE_REGISTRY
    THEN "ValueError: Unknown feature"
    ELSE ""

\* the exception one iteration of run_backtest's loop raises for asset ("" when
\* it reaches all_results.append): fetch_ohlcv, then validate_ohlcv, a name the
\* module binds or not, then compute_features
LoopBodyRaises(asset, config) ==
    IF fetch_ohlcv(asset, config.exchange) # "" THEN fetch_ohlcv(asset, config.exchange)
    ELSE IF ~config.validate_ohlcv_bound THEN "NameError: validate_ohlcv"
    ELSE compute_features(config.features)

\* the BacktestResult of _aggregate_results, by the assets whose portfolios
\* it averages
BacktestResult(config, results) ==
    [strategy_name |-> config.name,
     assets |-> [i \in 1..Len(results) |-> results[i].asset]]

InitBacktest ==
    /\ NoRun
    /\ fn = "run_backtest"
    /\ args \in [name : {"s1"},
                 assets : UNION {[1..n -> Assets] : n \in 0..MaxAssets},
                 features : FeatureLists,
                 exchange : [Assets -> {"candles", "none"}],
                 validate_ohlcv_bound : BOOLEAN]
    /\ returned = FALSE
    /\ ret = <<>>
    /\ all_results = <<>>
    /\ CacheIdle

\* run_backtest_asset that turns a later asset's failure into a verdict over
\* the assets evaluated so far
run_backtest_asset_partial ==
    /\ fn = "run_backtest"
    /\ ~returned
    /\ Len(all_results) < Len(args.assets)
    /\ LET asset == args.assets[Len(all_results) + 1]
           raised == LoopBodyRaises(asset, args)
       IN  IF raised = ""
           THEN /\ all_results' = Append(all_results, [asset |-> asset])
                /\ UNCHANGED <<returned, ret>>
           ELSE /\ returned' = TRUE
                /\ ret' = IF all_results = <<>>
                           THEN [raised |-> raised]
                           ELSE [result |-> BacktestResult(args, all_results)]
                /\ UNCHANGED all_results
    /\ UNCHANGED <<fn, args>>
    /\ UNCHANGED <<graphVars, cacheVars>>

\* one iteration of "for asset in config.assets": the asset's result is
\* appended, or the exception leaves run_backtest
run_backtest_asset ==
    /\ fn = "run_backtest"
    /\ ~returned
    /\ Len(all_results) < Len(args.assets)
    /\ LET asset == args.assets[Len(all_results) + 1]
           raised == LoopBodyRaises(asset, args)
       IN  IF raised = ""
           THEN /\ all_results' = Append(all_results, [asset |-> asset])
                /\ UNCHANGED <<returned, ret>>
           ELSE /\ returned' = TRUE
                /\ ret' = [raised |-> raised]
                /\ UNCHANGED all_results
    /\ UNCHANGED <<fn, args>>
    /\ UNCHANGED <<graphVars, cacheVars>>

\* return _aggregate_results(config, all_results); results[0] of an empty
\* list raises
run_backtest_return ==
    /\ Len(all_results) = Len(args.assets)
    /\ Return("run_backtest",
              IF all_results = <<>>
              THEN [raised |-> "IndexError"]
              ELSE [result |-> BacktestResult(args, all_results)])

NextBacktest ==
    \/ run_backtest_asset
    \/ run_backtest_return

SpecBacktest == InitBacktest /\ [][NextBacktest]_vars

\* the call's data fails: some configured asset has no data, or some
\* configured feature is not registered
DataFails ==
    \/ \E i \in 1..Len(args.assets) : args.exchange[args.assets[i]] = "none"
    \/ \E i \in 1..Len(args.features) : args.features[i] \notin FEATURE_REGISTRY

\* C17: run_backtest ends either with a BacktestResult aggregated over every
\* configured asset, in order, or with an exception and no BacktestResult;
\* and with an exception whenever some asset has no data or some feature is
\* not registered, wherever the failing asset is in the list.
C17_NoPartialVerdict ==
    (fn = "run_backtest" /\ returned) =>
        /\ \/ DOMAIN ret = {"raised"}
           \/ DOMAIN ret = {"result"} /\ ret.result.assets = args.assets
        /\ DataFails => DOMAIN ret = {"raised"}

\* the third asset fails after two assets were evaluated
C17_Witness ==
    /\ fn = "run_backtest"
    /\ returned
    /\ Len(args.assets) = 3
    /\ Len(all_results) = 2
    /\ args.exchange[args.assets[3]] = "none"
    /\ DOMAIN ret = {"raised"}

(***************************************************************************)
(* Entry and exit signals of run_backtest.  Probabilities are in           *)
(* hundredths.                                                             *)
(***************************************************************************)
ENTRY_THRESHOLD == 65
EXIT_THRESHOLD == 35

\* held-out periods are drawn with at most this many bars
MaxBars == 3

Probabilities == {0, 34, 35, 36, 50, 64, 65, 66, 100}

\* Entries with the threshold itself included
Entries_inclusive(probs) == [i \in DOMAIN probs |-> probs[i] >= ENTRY_THRESHOLD]

\* entries = pd.Series(probs > 0.65, index=dates_test)
Entries(probs) == [i \in DOMAIN probs |-> probs[i] > ENTRY_THRESHOLD]

\* exits = pd.Series(probs < 0.35, index=dates_test)
Exits(probs) == [i \in DOMAIN probs |-> probs[i] < EXIT_THRESHOLD]

InitSignals ==
    /\ NoRun
    /\ fn = "signals"
    /\ args \in [probs : SeqsUpTo(Probabilities, MaxBars)]
    /\ returned = FALSE
    /\ ret = <<>>
    /\ all_results = <<>>
    /\ CacheIdle

signals ==
    Return("signals", [entries |-> Entries(args.probs), exits |-> Exits(args.probs)])

SpecSignals == InitSignals /\ [][signals]_vars

\* C25: on every held-out bar at most one of entry and exit is set, and a
\* bar whose probability lies in [0.35, 0.65] sets neither.
C25_SignalsNeverOverlap ==
    (fn = "signals" /\ returned) =>
        \A i \in 1..Len(args.probs) :
            /\ ~(ret.entries[i] /\ ret.exits[i])
            /\ (EXIT_THRESHOLD <= args.probs[i] /\ args.probs[i] <= ENTRY_THRESHOLD)
                  => (~ret.entries[i] /\ ~ret.exits[i])

C25_Witness ==
    /\ fn = "signals"
    /\ returned
    /\ args.probs = <<65, 34, 66>>
    /\ ret.entries = <<FALSE, FALSE, TRUE>>
    /\ ret.exits = <<FALSE, TRUE, FALSE>>

(***************************************************************************)
(* query_knowledge_base.  A collection is up or down (its calls raise); a  *)
(* collection that is up holds documents, given by their distances to the  *)
(* query in ranked order.                                                  *)
(***************************************************************************)
\* queries are drawn with top_k up to this
MaxTopK == 3
\* collections are drawn with at most this many documents
MaxDocs == 2

Distances == {1, 2, 3}

\* x.get("distance", 999)
SortKey(x) == IF "distance" \in DOMAIN x THEN x.distance ELSE 999

Min2(a, b) == IF a <= b THEN a ELSE b

\* list.sort(key=...): stable, ascending
RECURSIVE InsertByKey(_, _)
InsertByKey(x, sorted) ==
    IF sorted = <<>> THEN <<x>>
    ELSE IF SortKey(Last(sorted)) <= SortKey(x) THEN Append(sorted, x)
    ELSE Append(InsertByKey(x, SubSeq(sorted, 1, Len(sorted) - 1)), Last(sorted))

RECURSIVE SortByKey(_)
SortByKey(results) ==
    IF results = <<>> THEN <<>>
    ELSE InsertByKey(Last(results), SortByKey(SubSeq(results, 1, Len(results) - 1)))

\* one try block: the entries appended for a collection.  col.count() or
\* col.query() raises when the collection is down, and col.query() raises for
\* n_results = 0; otherwise the nearest n_results documents are returned.
CollectionEntries(source, col, n) ==
    LET count == Len(col.docs)
        n_results == Min2(n, IF count = 0 THEN 1 ELSE count)
    IN  IF ~col.up \/ n_results < 1
        THEN <<[source |-> source, error |-> "error"]>>
        ELSE [i \in 1..Min2(n_results, count) |->
                [source |-> source, document |-> <<source, i>>,
                 metadata |-> <<source, i>>, distance |-> col.docs[i]]]

QueryKnowledgeBase(top_k, collection, research, backtest) ==
    LET first == IF collection \in {"research_notes", "both"}
                 THEN CollectionEntries("research_note", research, top_k)
                 ELSE <<>>
        second == IF collection \in {"backtest_results", "both"}
                  THEN CollectionEntries("backtest_result", backtest, top_k)
                  ELSE <<>>
        results == SortByKey(first \o second)
    IN  SubSeq(results, 1, Min2(top_k, Len(results)))

\* the ranked contents a collection may have
Rankings ==
    { q \in SeqsUpTo(Distances, MaxDocs) :
        \A i \in 1..(Len(q) - 1) : q[i] <= q[i + 1] }

Collections ==
    {[up |-> TRUE, docs |-> q] : q \in Rankings} \cup {[up |-> FALSE, docs |-> <<>>]}

InitQuery ==
    /\ NoRun
    /\ fn = "query_knowledge_base"
    /\ args \in [top_k : 0..MaxTopK,
                 collection : {"research_notes", "backtest_results", "both"},
                 research : Collections,
                 backtest : Collections]
    /\ returned = FALSE
    /\ ret = <<>>
    /\ all_results = <<>>
    /\ CacheIdle

query_knowledge_base ==
    Return("query_knowledge_base",
           QueryKnowledgeBase(args.top_k, args.collection, args.research, args.backtest))

SpecQuery == InitQuery /\ [][query_knowledge_base]_vars

\* C26: the result has at most top_k entries, every entry carries a document
\* and its metadata, and the entries are in non-decreasing order of
\* distance, also when the query against one collection fails.
C26_RankedDocuments ==
    (fn = "query_knowledge_base" /\ returned) =>
        /\ Len(ret) <= args.top_k
        /\ \A i \in 1..Len(ret) : {"document", "metadata"} \subseteq DOMAIN ret[i]
        /\ \A i \in 1..(Len(ret) - 1) : SortKey(ret[i]) <= SortKey(ret[i + 1])

(***************************************************************************)
(* get_exchange: the process-wide client cache, called from the worker     *)
(* threads of concurrent research runs.  A client is identified by its     *)
(* position in `constructed`.                                              *)
(***************************************************************************)
\* each thread makes at most this many get_exchange calls
MaxCalls == 2

InitCache ==
    /\ NoRun
    /\ fn = "get_exchange"
    /\ args = <<>>
    /\ returned = FALSE
    /\ ret = <<>>
    /\ all_results = <<>>
    /\ CacheIdle

\* a thread enters get_exchange(exchange_id)
get_exchange_call(t) ==
    /\ threads[t].pc = "idle"
    /\ Len(threads[t].returns) < MaxCalls
    /\ \E e \in ExchangeIds :
          threads' = [threads EXCEPT ![t].pc = "check", ![t].exchange_id = e,
                                     ![t].client = 0]
    /\ UNCHANGED <<exchanges, constructed>>
    /\ UNCHANGED <<graphVars, callVars>>

\* if exchange_id not in _exchanges
get_exchange_check(t) ==
    /\ threads[t].pc = "check"
    /\ threads' = [threads EXCEPT ![t].pc =
                      IF exchanges[threads[t].exchange_id] = 0 THEN "construct" ELSE "return"]
    /\ UNCHANGED <<exchanges, constructed>>
    /\ UNCHANGED <<graphVars, callVars>>

\* exchange_class({...})
get_exchange_construct(t) ==
    /\ threads[t].pc = "construct"
    /\ constructed' = Append(constructed, threads[t].exchange_id)
    /\ threads' = [threads EXCEPT ![t].pc = "store", ![t].client = Len(constructed) + 1]
    /\ UNCHANGED exchanges
    /\ UNCHANGED <<graphVars, callVars>>

\* _exchanges[exchange_id] = the client just constructed
get_exchange_store(t) ==
    /\ threads[t].pc = "store"
    /\ exchanges' = [exchanges EXCEPT ![threads[t].exchange_id] = threads[t].client]
    /\ threads' = [threads EXCEPT ![t].pc = "return"]
    /\ UNCHANGED constructed
    /\ UNCHANGED <<graphVars, callVars>>

\* return _exchanges[exchange_id]
get_exchange_return(t) ==
    /\ threads[t].pc = "return"
    /\ threads' = [threads EXCEPT
                      ![t].pc = "idle",
                      ![t].returns = Append(@, [exchange_id |-> threads[t].exchange_id,
                                                client |-> exchanges[threads[t].exchange_id]])]
    /\ UNCHANGED <<exchanges, constructed>>
    /\ UNCHANGED <<graphVars, callVars>>

NextCache ==
    \E t \in Threads :
        \/ get_exchange_call(t)
        \/ get_exchange_check(t)
        \/ get_exchange_construct(t)
        \/ get_exchange_store(t)
        \/ get_exchange_return(t)

SpecCache == InitCache /\ [][NextCache]_vars

\* C27: for every exchange id at most one client is ever constructed, and
\* every get_exchange call for it returns that same client.
C27_OneClientPerExchange ==
    \A e \in ExchangeIds :
        /\ Cardinality({i \in 1..Len(constructed) : constructed[i] = e}) <= 1
        /\ \A t, u \in Threads :
              \A i \in 1..Len(threads[t].returns), j \in 1..Len(threads[u].returns) :
                  (threads[t].returns[i].exchange_id = e
                     /\ threads[u].returns[j].exchange_id = e)
                  => threads[t].returns[i].client = threads[u].returns[j].client

====
